---- MODULE Spec2Model ----
(***************************************************************************)
(* A model of the streaming markdown pipeline of src/src/lib/streaming-    *)
(* down.ts: the MarkdownStreamChunker (Segmenter), the MarkdownParser      *)
(* (Renderer Adapter), the HTMLRenderer (Mount Surface) and the            *)
(* StreamingMarkdownParser (Orchestrator) that wires them together.        *)
(*                                                                         *)
(* Strings are sequences of one-character strings.  A block identifier     *)
(* `block-${n}` is modelled by the number n, and null by 0.                *)
(***************************************************************************)
EXTENDS Integers, Sequences, FiniteSets, TLC

VARIABLES
    buffer,          \* MarkdownStreamChunker.buffer
    nextBlockId,     \* MarkdownStreamChunker.nextBlockId
    currentBlockId,  \* MarkdownStreamChunker.currentBlockId (0 = null)
    listeners,       \* events that have the Orchestrator's handler attached
    state,           \* StreamingMarkdownParser.state
    root,            \* HTMLRenderer.root: the children, as block ids in order
    blocks,          \* HTMLRenderer.blocks: block id -> element
    events,          \* history: every event the chunker has emitted
    input,           \* history: concatenation of the fragments the chunker got
    ops,             \* history: number of write/end calls the chunker got
    ends,            \* history: number of end() calls the chunker got
    lastCall,        \* history: the public call made by the last step
    destroyCalled,   \* history: destroy() has been called
    ref,             \* history: the same session driven without pause()
    owed,            \* history: the calls dropped while paused, in order
    repaid,          \* history: how many of them the caller has made again
    asyncRender,     \* the session is the one with the asynchronous parser
    pending,         \* handlers suspended at `await this.parser.parse(...)`
    issued,          \* number of handlers that have called parser.parse
    parserInit,      \* MarkdownParser.initPromise: pending, ready or failed
    applied,         \* history: the handlers that resumed, in that order
    failed           \* history: the handlers whose parse was rejected

vars == <<buffer, nextBlockId, currentBlockId, listeners, state, root, blocks,
          events, input, ops, ends, lastCall, destroyCalled, ref, owed, repaid,
          asyncRender, pending, issued, parserInit, applied, failed>>

\* the variables only the asynchronous parser changes
parserVars == <<parserInit, applied, failed>>

----------------------------------------------------------------------------
(* Bounds of the model *)

\* the number of write/end calls that reach the chunker in one run
MaxOps == 4

\* the number of calls that may be dropped during the pauses of one run
MaxOwed == 2

\* the number of handlers that call the asynchronous parser in one run
MaxRenders == 4

----------------------------------------------------------------------------
(* Text *)

NL == "\n"

\* the backquote character (written as a quote here)
BT == "'"

\* The fragments a standalone chunker is fed with: they cut the boundary
\* marker NL NL and the fence BT BT BT at every position.
Fragments ==
    { <<>>, <<"a">>, <<NL>>, <<NL, NL>>, <<"a", NL>>, <<NL, "a">>,
      <<BT, BT, BT>>, <<BT>> }

\* The fragments the Orchestrator's caller writes.
CallerFragments ==
    { <<>>, <<"a">>, <<NL>>, <<NL, NL>>, <<"a", NL, NL>>, <<BT, BT, BT>>,
      <<BT, BT, BT, NL, "a">> }

\* The fragments written by a caller that repeats the dropped calls: text,
\* half a boundary marker, and text that closes a block.
ReplayFragments == { <<"a">>, <<NL>>, <<"a", NL, NL>> }

\* The fragments written to the session with the asynchronous parser: text
\* that extends a block and text that closes a block.
AsyncFragments == { <<"a">>, <<"a", NL, NL>> }

\* String.prototype.indexOf("\n\n"): the 0-based index of the leftmost
\* boundary marker, -1 when there is none.
IndexOfBoundary(data) ==
    LET hits == { i \in 1..(Len(data) - 1) : data[i] = NL /\ data[i + 1] = NL }
    IN  IF hits = {} THEN -1
        ELSE (CHOOSE i \in hits : \A j \in hits : i <= j) - 1

\* data.slice(0, idx)
SliceBefore(data, idx) == SubSeq(data, 1, idx)

\* A slice that keeps the second character of the marker.
SliceAfter_OffByOne(data, idx) == SubSeq(data, idx + 2, Len(data))

\* data.slice(idx + 2)
SliceAfter(data, idx) == SubSeq(data, idx + 3, Len(data))

----------------------------------------------------------------------------
(* 2) MarkdownParser *)

\* (markdown.match(/[3 backquotes]/g) || []).length: the non-overlapping fences,
\* matched left to right from position i.
RECURSIVE CountFencesFrom(_, _)
CountFencesFrom(markdown, i) ==
    IF i + 2 > Len(markdown) THEN 0
    ELSE IF markdown[i] = BT /\ markdown[i + 1] = BT /\ markdown[i + 2] = BT
         THEN 1 + CountFencesFrom(markdown, i + 3)
         ELSE CountFencesFrom(markdown, i + 1)

CountFences(markdown) == CountFencesFrom(markdown, 1)

\* const isComplete = fences % 2 === 0
IsComplete(markdown) == CountFences(markdown) % 2 = 0

\* the number of leading characters of s that are c
RECURSIVE LeadingRun(_, _)
LeadingRun(s, c) ==
    IF s # <<>> /\ Head(s) = c THEN 1 + LeadingRun(Tail(s), c) ELSE 0

\* s without its leading and trailing line breaks
RECURSIVE TrimNL(_)
TrimNL(s) ==
    IF s = <<>> THEN s
    ELSE IF Head(s) = NL THEN TrimNL(Tail(s))
    ELSE IF s[Len(s)] = NL THEN TrimNL(SubSeq(s, 1, Len(s) - 1))
    ELSE s

\* The 1-based position of the first line of s that starts with a fence,
\* Len(s) + 1 when no line does.
ClosingFenceAt(s) ==
    LET at == { i \in 1..(Len(s) - 2) :
                  /\ (i = 1 \/ s[i - 1] = NL)
                  /\ s[i] = BT /\ s[i + 1] = BT /\ s[i + 2] = BT }
    IN  IF at = {} THEN Len(s) + 1
        ELSE CHOOSE i \in at : \A j \in at : i <= j

\* marked.parse(markdown), as far as the pipeline reads it back: the kind of
\* element produced and the text it shows.  A text that opens with a fence
\* whose info string holds no backtick is a fenced code block: it shows the
\* lines after the opening line, up to a closing fence line or the end of
\* the text, and none of the fence characters themselves.  Any other text
\* is a paragraph that shows its characters, trimmed.
MarkedParse(markdown) ==
    LET open == LeadingRun(markdown, BT)
        rest == SubSeq(markdown, open + 1, Len(markdown))
        eol  == { i \in 1..Len(rest) : rest[i] = NL }
        cut  == IF eol = {} THEN Len(rest) + 1
                ELSE CHOOSE i \in eol : \A j \in eol : i <= j
        info == SubSeq(rest, 1, cut - 1)
        body == SubSeq(rest, cut + 1, Len(rest))
    IN  IF open >= 3 /\ \A i \in 1..Len(info) : info[i] # BT
        THEN [tag |-> "pre", text |-> SubSeq(body, 1, ClosingFenceAt(body) - 1)]
        ELSE [tag |-> "p", text |-> TrimNL(markdown)]

\* MarkdownParser.parse
Parse(markdown) ==
    [html |-> MarkedParse(markdown), isComplete |-> IsComplete(markdown)]

----------------------------------------------------------------------------
(* 3) HTMLRenderer, on a machine record m *)

\* el.innerHTML = "" of a new element
EmptyHTML == [tag |-> "none", text |-> <<>>]

\* HTMLElement.innerText of an element
InnerText(el) == el.innerHTML.text

createBlock(m, blockId) ==
    [m EXCEPT !.root = Append(@, blockId),
              !.blocks = [b \in (DOMAIN @) \cup {blockId} |->
                            IF b = blockId
                            THEN [innerHTML |-> EmptyHTML, complete |-> FALSE]
                            ELSE @[b]]]

updateBlock(m, blockId, html) ==
    IF blockId \in DOMAIN m.blocks
    THEN [m EXCEPT !.blocks[blockId].innerHTML = html]
    ELSE m

finalizeBlock(m, blockId, isComplete) ==
    IF blockId \in DOMAIN m.blocks /\ isComplete
    THEN [m EXCEPT !.blocks[blockId].complete = TRUE]
    ELSE m

\* A clear that empties the root element and keeps the map of blocks.
clear_KeepsMap(m) == [m EXCEPT !.root = <<>>]

clear(m) == [m EXCEPT !.root = <<>>, !.blocks = <<>>]

----------------------------------------------------------------------------
(* 4) StreamingMarkdownParser: the handlers *)

onBlockStart(m, p) ==
    IF m.state # "processing" THEN m
    ELSE createBlock(m, p.blockId)

onBlockUpdate(m, p) ==
    IF m.state # "processing" THEN m
    ELSE updateBlock(m, p.blockId, Parse(p.content).html)

onBlockEnd(m, p) ==
    IF m.state # "processing" THEN m
    ELSE LET finalMD == IF p.blockId \in DOMAIN m.blocks
                        THEN InnerText(m.blocks[p.blockId])
                        ELSE <<>>
         IN  finalizeBlock(m, p.blockId, Parse(finalMD).isComplete)

onEnd(m) == [m EXCEPT !.state = "idle"]

\* A handler that reaches `await this.parser.parse(markdown)`: it is
\* suspended there, with the block it is about.
Suspend(m, kind, blockId, markdown) ==
    [m EXCEPT !.issued = @ + 1,
              !.pending = @ \cup {[seq |-> m.issued + 1, kind |-> kind,
                                   blockId |-> blockId, markdown |-> markdown]}]

\* onBlockUpdate of the session with the asynchronous parser, up to its await
onBlockUpdateAsync(m, p) ==
    IF m.state # "processing" THEN m
    ELSE Suspend(m, "update", p.blockId, p.content)

\* onBlockEnd of the session with the asynchronous parser, up to its await
onBlockEndAsync(m, p) ==
    IF m.state # "processing" THEN m
    ELSE LET finalMD == IF p.blockId \in DOMAIN m.blocks
                        THEN InnerText(m.blocks[p.blockId])
                        ELSE <<>>
         IN  Suspend(m, "end", p.blockId, finalMD)

\* The rest of a suspended handler t, run when its parse has resolved.
ResumeHandler(m, t) ==
    LET m1 == [m EXCEPT !.pending = @ \ {t}]
    IN  IF t.kind = "update"
        THEN updateBlock(m1, t.blockId, Parse(t.markdown).html)
        ELSE finalizeBlock(m1, t.blockId, Parse(t.markdown).isComplete)

----------------------------------------------------------------------------
(* 1) MarkdownStreamChunker, on a machine record m *)

EventTypes == {"block-start", "block-update", "block-end", "end"}

\* MarkdownStreamChunker.emit: the event is recorded in the history and
\* handed to the listener attached for its type.
emit(m, p) ==
    LET m1 == [m EXCEPT !.events = Append(@, p)]
    IN  IF p.type \notin m1.listeners THEN m1
        ELSE CASE p.type = "block-start"  -> onBlockStart(m1, p)
               [] p.type = "block-update" ->
                    IF m1.asyncRender THEN onBlockUpdateAsync(m1, p)
                    ELSE onBlockUpdate(m1, p)
               [] p.type = "block-end" ->
                    IF m1.asyncRender THEN onBlockEndAsync(m1, p)
                    ELSE onBlockEnd(m1, p)
               [] p.type = "end"          -> onEnd(m1)

\* An emitStart that does not advance the counter.
emitStart_NoIncrement(m) ==
    IF m.currentBlockId = 0
    THEN emit([m EXCEPT !.currentBlockId = m.nextBlockId],
              [type |-> "block-start", blockId |-> m.nextBlockId, content |-> <<>>])
    ELSE m

emitStart(m) ==
    IF m.currentBlockId = 0
    THEN emit([m EXCEPT !.currentBlockId = m.nextBlockId,
                        !.nextBlockId = m.nextBlockId + 1],
              [type |-> "block-start", blockId |-> m.nextBlockId, content |-> <<>>])
    ELSE m

\* An emitUpdate that suppresses a block that would start empty.
emitUpdate_SkipsEmpty(m, content) ==
    IF content = <<>> /\ m.currentBlockId = 0 THEN m
    ELSE LET m1 == emitStart(m)
         IN  emit(m1, [type |-> "block-update", blockId |-> m1.currentBlockId,
                       content |-> content])

emitUpdate(m, content) ==
    LET m1 == emitStart(m)
    IN  emit(m1, [type |-> "block-update", blockId |-> m1.currentBlockId,
                  content |-> content])

\* An emitEnd that leaves the block open.
emitEnd_KeepsOpen(m) ==
    IF m.currentBlockId = 0 THEN m
    ELSE emit(m, [type |-> "block-end", blockId |-> m.currentBlockId,
                  content |-> <<>>])

emitEnd(m) ==
    IF m.currentBlockId = 0 THEN m
    ELSE LET m1 == emit(m, [type |-> "block-end", blockId |-> m.currentBlockId,
                            content |-> <<>>])
         IN  [m1 EXCEPT !.currentBlockId = 0]

\* The loop and the tail of MarkdownStreamChunker.write, on the local data.
RECURSIVE WriteLoop(_, _)
WriteLoop(m, data) ==
    LET idx == IndexOfBoundary(data)
    IN  IF idx = -1
        THEN IF Len(data) > 0
             THEN emitUpdate([m EXCEPT !.buffer = data], data)
             ELSE m
        ELSE WriteLoop(emitEnd(emitUpdate(m, SliceBefore(data, idx))),
                       SliceAfter(data, idx))

\* A write that forgets the text buffered by the calls before it.
ChunkerWrite_NoCarry(m, chunk) ==
    WriteLoop([m EXCEPT !.buffer = <<>>, !.input = @ \o chunk, !.ops = @ + 1],
              chunk)

\* MarkdownStreamChunker.write
ChunkerWrite(m, chunk) ==
    WriteLoop([m EXCEPT !.buffer = <<>>, !.input = @ \o chunk, !.ops = @ + 1],
              m.buffer \o chunk)

\* An end that keeps the flushed text in the buffer.
ChunkerEnd_KeepsBuffer(m) ==
    LET m0 == [m EXCEPT !.ops = @ + 1, !.ends = @ + 1]
        m1 == IF Len(m0.buffer) > 0
              THEN emitEnd(emitUpdate(m0, m0.buffer))
              ELSE m0
    IN  emit(m1, [type |-> "end", blockId |-> 0, content |-> <<>>])

\* MarkdownStreamChunker.end
ChunkerEnd(m) ==
    LET m0 == [m EXCEPT !.ops = @ + 1, !.ends = @ + 1]
        m1 == IF Len(m0.buffer) > 0
              THEN emitEnd([emitUpdate(m0, m0.buffer) EXCEPT !.buffer = <<>>])
              ELSE m0
    IN  emit(m1, [type |-> "end", blockId |-> 0, content |-> <<>>])

\* An off whose filter keeps the listener.
off_KeepsListener(m, event) == m

\* MarkdownStreamChunker.off
off(m, event) == [m EXCEPT !.listeners = @ \ {event}]

\* MarkdownStreamChunker.on
on(m, event) == [m EXCEPT !.listeners = @ \cup {event}]

\* A chunker as constructed, with no listener
NewChunker ==
    [buffer |-> <<>>, nextBlockId |-> 1, currentBlockId |-> 0, listeners |-> {},
     state |-> "idle", root |-> <<>>, blocks |-> <<>>,
     events |-> <<>>, input |-> <<>>, ops |-> 0, ends |-> 0,
     asyncRender |-> FALSE, pending |-> {}, issued |-> 0]

----------------------------------------------------------------------------
(* 4) StreamingMarkdownParser: the public calls, on a machine record m *)

\* A write that is forwarded while the session is paused as well.
write_WhilePaused(m, chunk) ==
    IF m.state \in {"processing", "paused"} THEN ChunkerWrite(m, chunk) ELSE m

write(m, chunk) ==
    IF m.state = "processing" THEN ChunkerWrite(m, chunk) ELSE m

end(m) ==
    IF m.state = "processing" THEN ChunkerEnd(m) ELSE m

\* A pause that discards the text buffered so far.
pause_DropsBuffer(m) ==
    IF m.state = "processing"
    THEN [m EXCEPT !.state = "paused", !.buffer = <<>>]
    ELSE m

pause(m) ==
    IF m.state = "processing" THEN [m EXCEPT !.state = "paused"] ELSE m

\* A resume that restarts any session that is not processing.
resume_AnyState(m) ==
    IF m.state # "processing" THEN [m EXCEPT !.state = "processing"] ELSE m

resume(m) ==
    IF m.state = "paused" THEN [m EXCEPT !.state = "processing"] ELSE m

\* A destroy that only clears the renderer.
destroy_OnlyClears(m) == clear(m)

destroy(m) ==
    off(off(off(off(clear([m EXCEPT !.state = "destroyed"]),
                    "block-start"), "block-update"), "block-end"), "end")

\* A hookup that does not attach the block-start handler.
hookup_NoStart(m) ==
    on(on(on([m EXCEPT !.state = "processing"],
             "block-update"), "block-end"), "end")

hookup(m) ==
    on(on(on(on([m EXCEPT !.state = "processing"],
                "block-start"), "block-update"), "block-end"), "end")

\* new StreamingMarkdownParser(targetElement)
NewSession == hookup(clear(NewChunker))

----------------------------------------------------------------------------
(* The state machine *)

\* the machine record of the current state
Machine ==
    [buffer |-> buffer, nextBlockId |-> nextBlockId,
     currentBlockId |-> currentBlockId, listeners |-> listeners,
     state |-> state, root |-> root, blocks |-> blocks,
     events |-> events, input |-> input, ops |-> ops, ends |-> ends,
     asyncRender |-> asyncRender, pending |-> pending, issued |-> issued]

\* the next state is the machine record m
Becomes(m) ==
    /\ buffer' = m.buffer
    /\ nextBlockId' = m.nextBlockId
    /\ currentBlockId' = m.currentBlockId
    /\ listeners' = m.listeners
    /\ state' = m.state
    /\ root' = m.root
    /\ blocks' = m.blocks
    /\ events' = m.events
    /\ input' = m.input
    /\ ops' = m.ops
    /\ ends' = m.ends
    /\ asyncRender' = m.asyncRender
    /\ pending' = m.pending
    /\ issued' = m.issued

Calls == {"write", "end", "pause", "resume", "destroy"}

\* the effect of one public call on a session
Apply(m, call) ==
    CASE call.op = "write"   -> write(m, call.chunk)
      [] call.op = "end"     -> end(m)
      [] call.op = "pause"   -> pause(m)
      [] call.op = "resume"  -> resume(m)
      [] call.op = "destroy" -> destroy(m)

\* a call that reaches the chunker stays within the bound
WithinBound(m, call) ==
    (call.op \in {"write", "end"} /\ m.state = "processing") => m.ops < MaxOps

\* the current state is the machine record m
Is(m) ==
    /\ buffer = m.buffer
    /\ nextBlockId = m.nextBlockId
    /\ currentBlockId = m.currentBlockId
    /\ listeners = m.listeners
    /\ state = m.state
    /\ root = m.root
    /\ blocks = m.blocks
    /\ events = m.events
    /\ input = m.input
    /\ ops = m.ops
    /\ ends = m.ends
    /\ asyncRender = m.asyncRender
    /\ pending = m.pending
    /\ issued = m.issued

Init ==
    /\ Is(NewSession)
    /\ lastCall = "none"
    /\ destroyCalled = FALSE
    /\ ref = NewSession
    /\ owed = <<>>
    /\ repaid = 0
    /\ parserInit = "ready"
    /\ applied = <<>>
    /\ failed = {}

\* The step of a session whose caller makes one public call.
Step(call) ==
    /\ WithinBound(Machine, call)
    /\ Becomes(Apply(Machine, call))
    /\ destroyCalled' = (destroyCalled \/ call.op = "destroy")
    /\ UNCHANGED <<ref, owed, repaid>>
    /\ UNCHANGED parserVars

Write(chunk) ==
    /\ lastCall' = "write"
    /\ Step([op |-> "write", chunk |-> chunk])

End ==
    /\ lastCall' = "end"
    /\ Step([op |-> "end", chunk |-> <<>>])

Pause ==
    /\ lastCall' = "pause"
    /\ Step([op |-> "pause", chunk |-> <<>>])

Resume ==
    /\ lastCall' = "resume"
    /\ Step([op |-> "resume", chunk |-> <<>>])

Destroy ==
    /\ lastCall' = "destroy"
    /\ Step([op |-> "destroy", chunk |-> <<>>])

Next ==
    \/ \E chunk \in CallerFragments : Write(chunk)
    \/ End
    \/ Pause
    \/ Resume
    \/ Destroy

Spec == Init /\ [][Next]_vars

----------------------------------------------------------------------------
(* A MarkdownStreamChunker used on its own: write and end in any order *)

InitChunker ==
    /\ Is(NewChunker)
    /\ lastCall = "none"
    /\ destroyCalled = FALSE
    /\ ref = NewChunker
    /\ owed = <<>>
    /\ repaid = 0
    /\ parserInit = "ready"
    /\ applied = <<>>
    /\ failed = {}

SegmenterWrite(chunk) ==
    /\ ops < MaxOps
    /\ Becomes(ChunkerWrite(Machine, chunk))
    /\ lastCall' = "write"
    /\ UNCHANGED <<destroyCalled, ref, owed, repaid>>
    /\ UNCHANGED parserVars

SegmenterEnd ==
    /\ ops < MaxOps
    /\ Becomes(ChunkerEnd(Machine))
    /\ lastCall' = "end"
    /\ UNCHANGED <<destroyCalled, ref, owed, repaid>>
    /\ UNCHANGED parserVars

NextChunker ==
    \/ \E chunk \in Fragments : SegmenterWrite(chunk)
    \/ SegmenterEnd

SpecChunker == InitChunker /\ [][NextChunker]_vars

----------------------------------------------------------------------------
(* A session whose caller repeats, after resume(), every write and end     *)
(* call that was made during a pause, next to a reference session `ref`    *)
(* that gets every call once, when it is first made, and is never paused.  *)

\* the calls dropped during a pause that the caller has not repeated yet
Outstanding == SubSeq(owed, repaid + 1, Len(owed))

\* The step of a caller that makes a write or end call for the first time:
\* the reference session gets it too, and a pause records it as dropped.
FirstIssue(call) ==
    /\ state = "paused" \/ Outstanding = <<>>
    /\ state = "paused" => Len(owed) < MaxOwed
    /\ WithinBound(Machine, call)
    /\ WithinBound(ref, call)
    /\ Becomes(Apply(Machine, call))
    /\ ref' = Apply(ref, call)
    /\ owed' = IF state = "paused" THEN Append(owed, call) ELSE owed
    /\ UNCHANGED <<destroyCalled, repaid>>
    /\ UNCHANGED parserVars

ReplayWrite(chunk) ==
    /\ lastCall' = "write"
    /\ FirstIssue([op |-> "write", chunk |-> chunk])

ReplayEnd ==
    /\ lastCall' = "end"
    /\ FirstIssue([op |-> "end", chunk |-> <<>>])

\* After resume(), the caller repeats the oldest call that a pause has
\* dropped.
ReplayOwed ==
    /\ state \in {"processing", "idle"}
    /\ Outstanding # <<>>
    /\ WithinBound(Machine, Head(Outstanding))
    /\ Becomes(Apply(Machine, Head(Outstanding)))
    /\ repaid' = repaid + 1
    /\ lastCall' = Head(Outstanding).op
    /\ UNCHANGED <<destroyCalled, ref, owed>>
    /\ UNCHANGED parserVars

ReplayPause ==
    /\ Becomes(pause(Machine))
    /\ lastCall' = "pause"
    /\ UNCHANGED <<destroyCalled, ref, owed, repaid>>
    /\ UNCHANGED parserVars

ReplayResume ==
    /\ Becomes(resume(Machine))
    /\ lastCall' = "resume"
    /\ UNCHANGED <<destroyCalled, ref, owed, repaid>>
    /\ UNCHANGED parserVars

ReplayDestroy ==
    /\ Becomes(destroy(Machine))
    /\ ref' = destroy(ref)
    /\ lastCall' = "destroy"
    /\ destroyCalled' = TRUE
    /\ UNCHANGED <<owed, repaid>>
    /\ UNCHANGED parserVars

NextReplay ==
    \/ \E chunk \in ReplayFragments : ReplayWrite(chunk)
    \/ ReplayEnd
    \/ ReplayOwed
    \/ ReplayPause
    \/ ReplayResume
    \/ ReplayDestroy

SpecReplay == Init /\ [][NextReplay]_vars

----------------------------------------------------------------------------
(* Reading the history of emitted events *)

IsBlockStart(e) == e.type = "block-start"

\* the block-start events of a history, in emission order
StartsOf(ev) == SelectSeq(ev, IsBlockStart)

\* the content of the last block-update of block id
LastUpdate(ev, id) ==
    LET at == { i \in 1..Len(ev) : ev[i].type = "block-update" /\ ev[i].blockId = id }
    IN  IF at = {} THEN <<>>
        ELSE ev[CHOOSE i \in at : \A j \in at : j <= i].content

HasEnded(ev, id) ==
    \E i \in 1..Len(ev) : ev[i].type = "block-end" /\ ev[i].blockId = id

\* the blocks of a history in start order: identifier, last text, closed
BlocksOf(ev) ==
    [i \in 1..Len(StartsOf(ev)) |->
        [blockId |-> StartsOf(ev)[i].blockId,
         text    |-> LastUpdate(ev, StartsOf(ev)[i].blockId),
         closed  |-> HasEnded(ev, StartsOf(ev)[i].blockId)]]

IsClosed(b) == b.closed

ClosedBlocksOf(ev) == SelectSeq(BlocksOf(ev), IsClosed)

\* the texts of a sequence of blocks joined with the boundary marker
RECURSIVE JoinBlocks(_)
JoinBlocks(bs) ==
    IF bs = <<>> THEN <<>>
    ELSE IF Len(bs) = 1 THEN bs[1].text
    ELSE bs[1].text \o <<NL, NL>> \o JoinBlocks(Tail(bs))

----------------------------------------------------------------------------
(* Claims about the chunker used on its own (SpecChunker) *)

EndsOnMarker(s) ==
    Len(s) >= 2 /\ s[Len(s) - 1] = NL /\ s[Len(s)] = NL

\* C1 (conservation): as long as end() has not been called, the last
\* block-update contents of the blocks, in identifier order and joined with
\* the boundary marker, are the concatenation of all fragments written, or
\* that concatenation without one trailing boundary marker it ends on.
C1_Conservation ==
    ends = 0 =>
        LET joined == JoinBlocks(BlocksOf(events))
        IN  \/ joined = input
            \/ EndsOnMarker(input) /\ joined \o <<NL, NL>> = input

\* C1 witness: three writes that cut a boundary marker in two, close a
\* block and leave text in the buffer.
C1_Witness ==
    /\ ends = 0
    /\ ops >= 3
    /\ Len(BlocksOf(events)) = 2
    /\ buffer # <<>>
    /\ \E i \in 1..Len(events) :
          /\ events[i].type = "block-update"
          /\ events[i].content # <<>>
          /\ events[i].content[Len(events[i].content)] = NL
          /\ events[i].blockId = 1
          /\ LastUpdate(events, 1) # events[i].content

\* C2 (fragmentation invariance): when the fragments have been written and
\* end() has then been called, the closed blocks (identifiers and final
\* texts) are those of writing the whole input as one fragment and then
\* calling end().
C2_FragmentationInvariance ==
    (ends = 1 /\ lastCall = "end") =>
        ClosedBlocksOf(events)
            = ClosedBlocksOf(ChunkerEnd(ChunkerWrite(NewChunker, input)).events)

\* C2 witness: Scenario C, the fragments "ab", "cd\n", "\nef" up to the
\* letters: three writes that split the marker, then end(), two blocks.
C2_Witness ==
    /\ ends = 1 /\ lastCall = "end"
    /\ ops = 4
    /\ input = <<"a", NL, NL, "a">>
    /\ Len(ClosedBlocksOf(events)) = 2

\* C3 (monotonic identifiers): the identifiers of the block-start events
\* are strictly increasing in emission order, so none is issued twice.
C3_MonotonicIds ==
    LET starts == StartsOf(events)
    IN  \A i, j \in 1..Len(starts) :
            i < j => starts[i].blockId < starts[j].blockId

\* C3 witness: three blocks have been started, one of them after an end().
C3_Witness ==
    /\ Len(StartsOf(events)) >= 3
    /\ ends >= 1
    /\ events[Len(events)].type # "end"

\* the positions in the history of the events of one type for block id
At(type, id) ==
    { i \in 1..Len(events) : events[i].type = type /\ events[i].blockId = id }

\* C4 (one open block, event order): every block has one block-start, then
\* one or more block-update, then at most one block-end and nothing after
\* it; and a block-start comes only after the block-end of every block
\* started before it.
C4_OneOpenBlock ==
    LET ids == { events[i].blockId : i \in { k \in 1..Len(events) : events[k].type # "end" } }
    IN  \A id \in ids :
            /\ Cardinality(At("block-start", id)) = 1
            /\ Cardinality(At("block-update", id)) >= 1
            /\ Cardinality(At("block-end", id)) <= 1
            /\ \A s \in At("block-start", id), u \in At("block-update", id) : s < u
            /\ \A u \in At("block-update", id), e \in At("block-end", id) : u < e
            /\ \A other \in ids :
                  \A s \in At("block-start", id), t \in At("block-start", other) :
                      t < s => \E e \in At("block-end", other) : e < s

\* C4 witness: a closed block with two updates, followed by an open block.
C4_Witness ==
    /\ Cardinality(At("block-update", 1)) >= 2
    /\ At("block-end", 1) # {}
    /\ currentBlockId = 2
    /\ At("block-end", 2) = {}

----------------------------------------------------------------------------
(* Claims about the session (Spec) *)

UpdateEvent(id, content) ==
    [type |-> "block-update", blockId |-> id, content |-> content]

EndEvent(id) == [type |-> "block-end", blockId |-> id, content |-> <<>>]

StreamEnd == [type |-> "end", blockId |-> 0, content |-> <<>>]

\* C5 (paused calls are dropped): a write or end call made while the
\* session is paused does not reach the chunker (its buffer, counters and
\* the text it has received are unchanged), emits no event and changes
\* neither the Mount Surface nor the session state.
C5_PausedCallsDropped ==
    [][(state = "paused" /\ lastCall' \in {"write", "end"}) =>
          UNCHANGED <<buffer, nextBlockId, currentBlockId, listeners, events,
                      input, ops, ends, root, blocks, state>>]_vars

\* C5 witness: a write has been made while paused, with a block open.
C5_Witness ==
    /\ state = "paused"
    /\ lastCall = "write"
    /\ buffer # <<>>
    /\ currentBlockId # 0

\* C7 (destroy finality): once destroy() has been called, no call changes
\* the Mount Surface.  (No call of the session raises: no operation of the
\* model has an error outcome.)
C7_DestroyFinality ==
    [][destroyCalled => UNCHANGED <<root, blocks>>]_vars

\* C7 witness: a write made after destroy(), in a session that had
\* buffered text and a region before.
C7_Witness ==
    /\ destroyCalled
    /\ lastCall = "write"
    /\ buffer # <<>>
    /\ root = <<>>

\* the lifecycle table: the state after a call made in a state
LifecycleTable(from, call) ==
    CASE call = "destroy"                        -> "destroyed"
      [] call = "pause"  /\ from = "processing"  -> "paused"
      [] call = "resume" /\ from = "paused"      -> "processing"
      [] call = "end"    /\ from = "processing"  -> "idle"
      [] OTHER                                   -> from

\* C8 (lifecycle conformance): the session is processing after construction;
\* every call moves the state as the lifecycle table says, which changes it
\* only by pause() in processing, resume() in paused, end() in processing
\* and destroy(); and a destroyed session stays destroyed.
C8_Lifecycle ==
    /\ state = "processing"
    /\ [][/\ state' = LifecycleTable(state, lastCall')
          /\ state = "destroyed" => state' = "destroyed"]_vars

\* C8 witness: a session that was paused, resumed, ended and is idle when
\* resume() is called again.
C8_Witness ==
    /\ state = "idle"
    /\ lastCall = "resume"
    /\ ops >= 2

\* C9 (end in processing): end() called in state processing emits, when the
\* buffer is not empty, one block-update with the buffered text and then
\* the block-end of the open block, and in every case one stream-end event
\* last; afterwards the buffer is empty, no block is open and the state is
\* idle.
C9_EndFlushes ==
    [][(state = "processing" /\ lastCall' = "end") =>
          /\ events' = events
                \o (IF buffer # <<>>
                    THEN <<UpdateEvent(currentBlockId, buffer), EndEvent(currentBlockId)>>
                    ELSE <<>>)
                \o <<StreamEnd>>
          /\ buffer' = <<>>
          /\ currentBlockId' = 0
          /\ state' = "idle"]_vars

\* C9 witness: end() has flushed the open second block of a session.
C9_Witness ==
    /\ state = "idle"
    /\ lastCall = "end"
    /\ Len(events) >= 3
    /\ events[Len(events) - 1] = EndEvent(2)
    /\ events[Len(events) - 2].type = "block-update"
    /\ events[Len(events) - 2].content # <<>>

\* C10 (finalized iff complete): in a session that is not destroyed, the
\* region of every closed block is marked finalized if and only if the
\* block's final text holds an even number of fences.
C10_FinalizedIffComplete ==
    ~destroyCalled =>
        \A id \in DOMAIN blocks :
            HasEnded(events, id) =>
                (blocks[id].complete <=> IsComplete(LastUpdate(events, id)))

----------------------------------------------------------------------------
(* Claims about pausing (SpecReplay) *)

\* C6 (pause transparency): whenever the caller has repeated every call
\* that a pause dropped, the session has the blocks (identifiers, texts,
\* closed or open) and the buffer of the reference session, which got the
\* same calls once and was never paused.
C6_PauseTransparency ==
    Outstanding = <<>> =>
        /\ BlocksOf(events) = BlocksOf(ref.events)
        /\ buffer = ref.buffer
        /\ nextBlockId = ref.nextBlockId

\* C6 witness: a session paused with text in its buffer, whose caller has
\* repeated the non-empty write that the pause dropped.
C6_Witness ==
    /\ Len(owed) >= 1
    /\ Outstanding = <<>>
    /\ owed[1].op = "write"
    /\ owed[1].chunk # <<>>
    /\ lastCall = "write"
    /\ Len(BlocksOf(events)) >= 2
    /\ Len(input) > Len(owed[1].chunk)

----------------------------------------------------------------------------
(* Claims about the text of the blocks *)

\* The pieces of s between its boundary markers, the markers found from
\* the left, character by character; cur is the piece being read.
RECURSIVE SegmentsFrom(_, _, _)
SegmentsFrom(s, i, cur) ==
    IF i > Len(s) THEN <<cur>>
    ELSE IF i < Len(s) /\ s[i] = NL /\ s[i + 1] = NL
         THEN <<cur>> \o SegmentsFrom(s, i + 2, <<>>)
         ELSE SegmentsFrom(s, i + 1, Append(cur, s[i]))

Segments(s) == SegmentsFrom(s, 1, <<>>)

\* the text written since the last boundary marker of s
OpenText(s) == Segments(s)[Len(Segments(s))]

\* C15 (empty blocks are kept): as long as the session has not ended or
\* been destroyed, every boundary marker of the input closes a block of its
\* own, also when no character precedes it: the closed blocks are numbered
\* 1, 2, ... and their texts are the pieces of the input before each
\* marker; a block whose piece is empty got a block-update with the empty
\* string, and every one of them has a region.
C15_EmptyBlocksKept ==
    (~destroyCalled /\ ends = 0) =>
        LET segs   == Segments(input)
            closed == ClosedBlocksOf(events)
        IN  /\ Len(closed) = Len(segs) - 1
            /\ \A i \in 1..Len(closed) :
                  /\ closed[i].blockId = i
                  /\ closed[i].text = segs[i]
                  /\ i \in DOMAIN blocks
                  /\ \E k \in 1..Len(root) : root[k] = i
                  /\ segs[i] = <<>> =>
                        \E k \in 1..Len(events) : events[k] = UpdateEvent(i, <<>>)

\* C15 witness: the input starts with a boundary marker and holds a second
\* one right after it: two blocks that start, get the empty string and end,
\* each with a region.
C15_Witness ==
    /\ ~destroyCalled /\ ends = 0
    /\ Len(input) >= 4
    /\ SubSeq(input, 1, 4) = <<NL, NL, NL, NL>>
    /\ Len(events) >= 6
    /\ \A id \in {1, 2} :
          /\ events[3 * id - 2].type = "block-start"
          /\ events[3 * id - 2].blockId = id
          /\ events[3 * id - 1] = UpdateEvent(id, <<>>)
          /\ events[3 * id] = EndEvent(id)
    /\ {1, 2} \subseteq DOMAIN blocks

IsBlockUpdate(e) == e.type = "block-update"

\* the contents of the block-update events of a history, in order
UpdateContents(ev) ==
    LET ups == SelectSeq(ev, IsBlockUpdate)
    IN  [i \in 1..Len(ups) |-> ups[i].content]

\* C16 (updates are cumulative): the block-update events of a write call
\* carry, in order, the pieces of the text made of everything written since
\* the last boundary marker followed by the call's fragment; only an empty
\* last piece gets no update.  (Checked up to the first end().)
C16_CumulativeUpdates ==
    [][(lastCall' = "write" /\ ends' = 0) =>
          LET chunk == SubSeq(input', Len(input) + 1, Len(input'))
              segs  == Segments(OpenText(input) \o chunk)
              want  == IF segs[Len(segs)] = <<>>
                       THEN SubSeq(segs, 1, Len(segs) - 1)
                       ELSE segs
          IN  UpdateContents(SubSeq(events', Len(events) + 1, Len(events'))) = want]_vars

\* C16 witness: the last update carries text of three write calls.
C16_Witness ==
    /\ ends = 0
    /\ lastCall = "write"
    /\ ops >= 3
    /\ Len(buffer) >= 4
    /\ events[Len(events)] = UpdateEvent(currentBlockId, buffer)
    /\ Len(StartsOf(events)) >= 2

\* C17 (pause and resume keep everything but the state): a pause() or
\* resume() call, in any state, leaves the buffer, the open block, the
\* identifier counter and the Mount Surface unchanged.
C17_PauseResumeFrame ==
    [][lastCall' \in {"pause", "resume"} =>
          UNCHANGED <<buffer, currentBlockId, nextBlockId, root, blocks>>]_vars

\* C17 witness: a session resumed with the text it had buffered.
C17_Witness ==
    /\ lastCall = "resume"
    /\ state = "processing"
    /\ buffer # <<>>
    /\ currentBlockId # 0
    /\ root # <<>>

\* C18 (open block and buffer): between the calls of the chunker, a block
\* is open exactly when the buffer is not empty, and then the buffer is the
\* content of the last block-update of the open block.
C18_OpenIffBuffered ==
    /\ (currentBlockId # 0) <=> (buffer # <<>>)
    /\ currentBlockId # 0 =>
          /\ buffer = LastUpdate(events, currentBlockId)
          /\ events[Len(events)] = UpdateEvent(currentBlockId, buffer)

\* C18 witness: a block is open after an end() and a later write.
C18_Witness ==
    /\ ends >= 1
    /\ currentBlockId >= 2
    /\ Len(buffer) >= 2

\* C19 (idle is final for input): once end() has made the session idle,
\* a write, end, pause or resume call changes nothing: no event, no Mount
\* Surface change, the state stays idle; only destroy() changes the state.
C19_IdleAcceptsNothing ==
    [][(state = "idle" /\ lastCall' # "destroy") =>
          UNCHANGED <<buffer, nextBlockId, currentBlockId, listeners, state,
                      root, blocks, events, input, ops, ends>>]_vars

\* C19 witness: a write made to an idle session that holds two regions.
C19_Witness ==
    /\ state = "idle"
    /\ lastCall = "write"
    /\ Len(root) >= 2
    /\ events[Len(events)] = StreamEnd

\* C20 (regions follow the blocks): while the session is not destroyed,
\* the regions are those of the blocks started so far, one each, in
\* increasing identifier order; and every block-update found its region:
\* the region shows the rendering of the block's last update.
C20_RegionsFollowBlocks ==
    ~destroyCalled =>
        LET starts == StartsOf(events)
        IN  /\ root = [i \in 1..Len(starts) |-> starts[i].blockId]
            /\ \A i, j \in 1..Len(root) : i < j => root[i] < root[j]
            /\ DOMAIN blocks = { root[i] : i \in 1..Len(root) }
            /\ \A id \in DOMAIN blocks :
                  blocks[id].innerHTML = Parse(LastUpdate(events, id)).html

\* C20 witness: three regions, the last one still open.
C20_Witness ==
    /\ ~destroyCalled
    /\ root = <<1, 2, 3>>
    /\ currentBlockId = 3
    /\ blocks[3].innerHTML.text # <<>>

----------------------------------------------------------------------------
(* The session with the asynchronous parser (the second                    *)
(* StreamingMarkdownParser of streaming-down.ts, with the MarkdownParser   *)
(* that awaits its initialisation).  A public call runs to its end; the    *)
(* handlers it suspended resume later, one at a time, in any order.        *)

\* new StreamingMarkdownParser(targetElement), asynchronous parser
NewAsyncSession == [NewSession EXCEPT !.asyncRender = TRUE]

InitAsync ==
    /\ Is(NewAsyncSession)
    /\ lastCall = "none"
    /\ destroyCalled = FALSE
    /\ ref = NewAsyncSession
    /\ owed = <<>>
    /\ repaid = 0
    /\ parserInit = "pending"
    /\ applied = <<>>
    /\ failed = {}

\* The step of a session whose caller makes one public call.
AsyncStep(call) ==
    /\ WithinBound(Machine, call)
    /\ Apply(Machine, call).issued <= MaxRenders
    /\ Becomes(Apply(Machine, call))
    /\ destroyCalled' = (destroyCalled \/ call.op = "destroy")
    /\ UNCHANGED <<ref, owed, repaid>>
    /\ UNCHANGED parserVars

AsyncWrite(chunk) ==
    /\ lastCall' = "write"
    /\ AsyncStep([op |-> "write", chunk |-> chunk])

AsyncEnd ==
    /\ lastCall' = "end"
    /\ AsyncStep([op |-> "end", chunk |-> <<>>])

AsyncPause ==
    /\ lastCall' = "pause"
    /\ AsyncStep([op |-> "pause", chunk |-> <<>>])

AsyncResume ==
    /\ lastCall' = "resume"
    /\ AsyncStep([op |-> "resume", chunk |-> <<>>])

AsyncDestroy ==
    /\ lastCall' = "destroy"
    /\ AsyncStep([op |-> "destroy", chunk |-> <<>>])

\* MarkdownParser.initialize resolves: this.marked is set.
ParserReady ==
    /\ parserInit = "pending"
    /\ parserInit' = "ready"
    /\ lastCall' = "parser-ready"
    /\ Becomes(Machine)
    /\ UNCHANGED <<destroyCalled, ref, owed, repaid, applied, failed>>

\* MarkdownParser.initialize rejects (createHighlighter fails): initPromise
\* is rejected and this.marked stays null.
ParserFails ==
    /\ parserInit = "pending"
    /\ parserInit' = "failed"
    /\ lastCall' = "parser-failed"
    /\ Becomes(Machine)
    /\ UNCHANGED <<destroyCalled, ref, owed, repaid, applied, failed>>

\* The parse of a suspended handler resolves and the handler runs on.
RenderCompletes(t) ==
    /\ t \in pending
    /\ parserInit = "ready"
    /\ Becomes(ResumeHandler(Machine, t))
    /\ applied' = Append(applied, [seq |-> t.seq, kind |-> t.kind,
                                   blockId |-> t.blockId,
                                   afterDestroy |-> destroyCalled])
    /\ lastCall' = "render-done"
    /\ UNCHANGED <<destroyCalled, ref, owed, repaid, parserInit, failed>>

\* The parse of a suspended handler throws: the handler's promise, which
\* emit did not keep, is rejected; no caller of write or end gets the
\* error, and the handler does nothing more.
RenderRejects(t) ==
    /\ t \in pending
    /\ parserInit = "failed"
    /\ Becomes([Machine EXCEPT !.pending = @ \ {t}])
    /\ failed' = failed \cup {[seq |-> t.seq, kind |-> t.kind,
                               blockId |-> t.blockId, toCaller |-> FALSE]}
    /\ lastCall' = "render-failed"
    /\ UNCHANGED <<destroyCalled, ref, owed, repaid, parserInit, applied>>

NextAsync ==
    \/ \E chunk \in AsyncFragments : AsyncWrite(chunk)
    \/ AsyncEnd
    \/ AsyncPause
    \/ AsyncResume
    \/ AsyncDestroy
    \/ ParserReady
    \/ ParserFails
    \/ \E t \in pending : RenderCompletes(t)
    \/ \E t \in pending : RenderRejects(t)

SpecAsync == InitAsync /\ [][NextAsync]_vars

----------------------------------------------------------------------------
(* Claims about the session with the asynchronous parser (SpecAsync) *)

\* the text of the last parse issued for block id by a block-update handler
LastIssuedText(id) == LastUpdate(events, id)

\* C11 (no stale overwrite): the block-update handlers of one block resume
\* in the order in which they were suspended, and when no handler is
\* suspended every region shows the rendering of its block's last update.
C11_NoStaleOverwrite ==
    /\ \A i, j \in 1..Len(applied) :
          ( /\ i < j
            /\ applied[i].kind = "update" /\ applied[j].kind = "update"
            /\ applied[i].blockId = applied[j].blockId )
          => applied[i].seq < applied[j].seq
    /\ (pending = {} /\ ~destroyCalled /\ parserInit = "ready") =>
          \A id \in DOMAIN blocks :
              blocks[id].innerHTML = Parse(LastIssuedText(id)).html

\* C12 (a render that completes after destroy is not applied): once
\* destroy() has been called, a handler that resumes or is rejected changes
\* no region of the Mount Surface.
C12_LateRenderNoOp ==
    [][(destroyCalled /\ pending' # pending) => UNCHANGED <<root, blocks>>]_vars

\* C12 witness: a block-update handler and a block-end handler, suspended
\* before destroy(), have both resumed after it.
C12_Witness ==
    /\ \E i \in 1..Len(applied) : applied[i].afterDestroy /\ applied[i].kind = "update"
    /\ \E i \in 1..Len(applied) : applied[i].afterDestroy /\ applied[i].kind = "end"

\* C13 (destroy is immediate): a destroy() call leaves the session
\* destroyed, the Mount Surface without regions and no listener attached,
\* whatever the state and the suspended handlers.
C13_DestroyImmediate ==
    [][lastCall' = "destroy" =>
          /\ state' = "destroyed"
          /\ root' = <<>>
          /\ DOMAIN blocks' = {}
          /\ listeners' = {}]_vars

\* C13 witness: destroy() was called on a session that has started two
\* blocks, while handlers were suspended on a parser not yet initialised.
C13_Witness ==
    /\ lastCall = "destroy"
    /\ pending # {}
    /\ parserInit = "pending"
    /\ Len(StartsOf(events)) >= 2

\* C14 (a failed render is propagated): every handler whose parse failed
\* has passed the error to the caller of write() or end(), and the block of
\* a failed block-update has not been closed.
C14_FailurePropagates ==
    \A t \in failed :
        /\ t.toCaller
        /\ t.kind = "update" => ~HasEnded(events, t.blockId)

====
